---- MODULE Spec2Model ----
(***************************************************************************)
(* Model of plugins/ecf/ecfprinterstatus.py: ECFAsyncPrinterStatus, one    *)
(* asynchronous status exchange with a fiscal printer over a serial port.  *)
(* The GLib main loop is the scheduler: it may dispatch any registered     *)
(* source (the timer, the IO_OUT watch, the IO_IN watch) in any order, and *)
(* the owner of the object may call stop() at any time.                    *)
(***************************************************************************)
EXTENDS Integers, Sequences, FiniteSets, TLC

\* ---- bounds of the model ----
MaxReads == 3          \* read-readiness callbacks explored per exchange
MaxChunk == 1          \* longest result of one port.read()
MaxWrites == 2         \* os.write calls explored (the code never reaches it)

\* ---- program constants ----
DefaultDelay == 5      \* delay=5 in the signature of __init__
MsPerSecond == 1000    \* self._delay * 1000 in _add_timeout

Bytes == {0, 1}
None == "None"
Delays == {1}                    \* explicit delay arguments explored
QueryValues == {<<7, 9>>}
TimerSourceId == 1
NoArgs == [printer_class |-> FALSE, printer |-> FALSE, delay |-> FALSE]

\* Drivers: what printer.status_reply_complete decides on the buffer.
Drivers == {"len1", "len2", "len3", "term", "never"}

VARIABLES
    phase,        \* "none": not constructed, "error": __init__ raised, "live"
    raised,       \* the exception __init__ raised, or None
    port,         \* "none", "created" (_create_port) or "printer" (printer.get_port())
    printer,      \* the driver of self.printer, or None
    query,        \* what printer.query_status() returns
    _reply,       \* self._reply
    _delay,       \* self._delay
    _timeout_id,  \* self._timeout_id; 0 while the attribute is not set
    timers,       \* main loop: pending timeout sources, [id, interval]
    watches,      \* main loop: registered io watches on the port
    written,      \* the port: every os.write, in order
    chunks,       \* the port: every port.read() result, in order
    events,       \* signals emitted, in order
    args,         \* which optional arguments the caller passed to __init__
    stopCalled,   \* stop() has been called
    last          \* the last method that ran

vars == <<phase, raised, port, printer, query, _reply, _delay, _timeout_id,
          timers, watches, written, chunks, events, args, stopCalled, last>>

\* ---- stoqlib/gui/slaves/paymentslave.py: state of the payment slaves ----
VARIABLES
    payments,            \* database: the payments of order.group, in id order
    nextId,              \* database: the id the next created payment gets
    savepoint,           \* database: the payments at savepoint 'before_payment_creation'
    ls_phase,            \* "none", "list" (a bare PaymentListSlave), "slave" (inside a method slave)
    total_amount,        \* PaymentListSlave.total_amount = method slave's total_value
    max_installments,    \* PaymentListSlave.max_installments (0 also stands for None)
    max_registered,      \* register_max_installments has been called
    payment_slaves,      \* PaymentListSlave.payment_slaves: the widgets that have a slave
    list_vbox,           \* PaymentListSlave.list_vbox children, in order
    interest_total,      \* parent.get_interest_total()
    installments_number, \* method slave: self.model.installments_number
    inst_invalid,        \* method slave: the installments_number field is marked invalid
    inner_override,      \* method slave: get_created_adapted_payments is overridden to return []
    slave_method,        \* method slave: self.method (its name)
    method_max,          \* self.method.max_installments / self._method.max_installments
    spin_range_max,      \* method slave: upper end of installments_number.set_range(1, ..)
    ls_add_button,       \* PaymentListSlave.add_button is sensitive
    ls_remove_button,    \* PaymentListSlave.remove_button is sensitive
    status_label,        \* PaymentListSlave.status_label text
    total_label,         \* PaymentListSlave.total_label: <<>> for '', <<n>> for format_price(n)
    next_enabled,        \* the last argument of wizard.refresh_next
    mm_phase,            \* MultipleMethodSlave: "none", "ready", "editor" (dialog running)
    order,               \* the class of the order: Sale, PurchaseOrder, PaymentRenegotiation
    client,              \* order.client: <<>> for None, else <<remaining_store_credit>>
    _method,             \* MultipleMethodSlave._method (its name)
    _outstanding_value,  \* MultipleMethodSlave._outstanding_value
    total_value,         \* MultipleMethodSlave.total_value widget
    _holder,             \* MultipleMethodSlave._holder.value
    base_value,          \* MultipleMethodSlave.base_value widget: the value it shows
    add_button,          \* MultipleMethodSlave.add_button is sensitive
    validation,          \* what on_base_value__validate returned last
    emitted,             \* CreatePaymentEvent.emit calls of the handler that ran last
    event_retval,        \* what CreatePaymentEvent.emit returned to it (None without emit)
    dialogs,             \* info / run_dialog calls of the handler that ran last
    opened_on,           \* the payments of the group when the running run_dialog was called
    p_raised,            \* the exception the last call raised, or None
    p_last               \* the last method of the payment slaves that ran

dbvars == <<payments, nextId, savepoint>>
lsvars == <<ls_phase, total_amount, max_installments, max_registered, payment_slaves,
            list_vbox, interest_total, installments_number, inst_invalid,
            inner_override, slave_method, ls_add_button, ls_remove_button,
            status_label, total_label>>
mmvars == <<mm_phase, order, client, _method, _outstanding_value, total_value, _holder,
            base_value, add_button, validation, emitted, event_retval, dialogs, opened_on>>
pvars == <<dbvars, lsvars, mmvars, method_max, spin_range_max, spin_range_max, next_enabled, p_raised, p_last>>

\* ---- pure helpers ----
RECURSIVE SeqsUpTo(_)
SeqsUpTo(n) == IF n = 0 THEN {<<>>}
               ELSE LET shorter == SeqsUpTo(n - 1)
                    IN shorter \cup {Append(s, b) : s \in {t \in shorter : Len(t) = n - 1}, b \in Bytes}

ReadResults == SeqsUpTo(MaxChunk)

RECURSIVE Flatten(_)
Flatten(ss) == IF ss = <<>> THEN <<>> ELSE Head(ss) \o Flatten(Tail(ss))

IsPrefix(s, t) == Len(s) <= Len(t) /\ SubSeq(t, 1, Len(s)) = s

\* printer.status_reply_complete(reply), one definition per driver
status_reply_complete(drv, reply) ==
    CASE drv = "len1" -> Len(reply) >= 1
      [] drv = "len2" -> Len(reply) >= 2
      [] drv = "len3" -> Len(reply) >= 3
      [] drv = "term" -> reply # <<>> /\ reply[Len(reply)] = 1
      [] OTHER -> FALSE

ReplyEvent(buf) == [name |-> "reply", arg |-> buf]
TimeoutEvent == [name |-> "timeout", arg |-> <<>>]

emit(ev) == events' = Append(events, ev)

\* ---- payment slaves: nothing constructed, empty payment group ----
PaymentsNotBuilt ==
    /\ payments = <<>> /\ nextId = 1 /\ savepoint = <<>>
    /\ ls_phase = "none" /\ total_amount = 0
    /\ max_installments = 0 /\ max_registered = FALSE
    /\ payment_slaves = {} /\ list_vbox = <<>>
    /\ interest_total = 0
    /\ installments_number = 0 /\ inst_invalid = FALSE
    /\ inner_override = FALSE /\ slave_method = None
    /\ ls_add_button = FALSE /\ ls_remove_button = FALSE
    /\ status_label = "" /\ total_label = <<>>
    /\ mm_phase = "none" /\ order = None /\ client = <<>> /\ _method = None
    /\ _outstanding_value = 0 /\ total_value = 0 /\ _holder = 0 /\ base_value = 0
    /\ add_button = FALSE /\ validation = None
    /\ emitted = <<>> /\ event_retval = None /\ dialogs = <<>> /\ opened_on = <<>>
    /\ method_max = 0 /\ spin_range_max = 0 /\ next_enabled = FALSE
    /\ p_raised = None /\ p_last = "none"

\* ---- state after nothing has been constructed ----
Init ==
    /\ phase = "none"
    /\ raised = None
    /\ port = "none"
    /\ printer = None
    /\ query = <<>>
    /\ _reply = <<>>
    /\ _delay = 0
    /\ _timeout_id = 0
    /\ timers = {}
    /\ watches = {}
    /\ written = <<>>
    /\ chunks = <<>>
    /\ events = <<>>
    /\ args = NoArgs
    /\ stopCalled = FALSE
    /\ last = "none"
    /\ PaymentsNotBuilt

\* ---- _remove_timeout ----
_remove_timeout_keep ==
    /\ _timeout_id' = -1
    /\ timers' = timers

_remove_timeout ==
    IF _timeout_id # -1
    THEN /\ timers' = {t \in timers : t.id # _timeout_id}
         /\ _timeout_id' = -1
    ELSE UNCHANGED <<timers, _timeout_id>>

\* ---- _add_timeout ----
_add_timeout_seconds(delay) ==
    /\ timers' = timers \cup {[id |-> TimerSourceId, interval |-> delay]}
    /\ _timeout_id' = TimerSourceId

_add_timeout(delay) ==
    /\ timers' = timers \cup {[id |-> TimerSourceId, interval |-> delay * MsPerSecond]}
    /\ _timeout_id' = TimerSourceId

\* ---- __init__ ----
\* has_class / has_printer: whether printer_class / printer was passed.
init_late_check(has_class, has_printer, drv, q, delay_given, delay) ==
    /\ phase = "none"
    /\ last' = "__init__"
    /\ _reply' = <<>>
    /\ _delay' = IF delay_given THEN delay ELSE DefaultDelay
    /\ _add_timeout(_delay')
    /\ watches' = {"IO_OUT", "IO_IN"}
    /\ IF ~has_printer /\ ~has_class
       THEN /\ phase' = "error"
            /\ raised' = "TypeError"
            /\ UNCHANGED <<port, printer, query>>
       ELSE /\ phase' = "live"
            /\ port' = IF has_class THEN "created" ELSE "printer"
            /\ printer' = drv
            /\ query' = q
            /\ UNCHANGED raised
    /\ args' = [printer_class |-> has_class, printer |-> has_printer, delay |-> delay_given]
    /\ UNCHANGED <<written, chunks, events, stopCalled>>
    /\ UNCHANGED pvars

__init__(has_class, has_printer, drv, q, delay_given, delay) ==
    /\ phase = "none"
    /\ last' = "__init__"
    /\ IF ~has_printer /\ ~has_class
       THEN /\ phase' = "error"
            /\ raised' = "TypeError"
            /\ UNCHANGED <<port, printer, query, _reply, _delay, _timeout_id,
                           timers, watches>>
       ELSE /\ phase' = "live"
            /\ _reply' = <<>>
            /\ _delay' = IF delay_given THEN delay ELSE DefaultDelay
            /\ port' = IF has_class THEN "created" ELSE "printer"
            /\ printer' = drv
            /\ query' = q
            /\ _add_timeout(_delay')
            /\ watches' = {"IO_OUT", "IO_IN"}
            /\ UNCHANGED raised
    /\ args' = [printer_class |-> has_class, printer |-> has_printer, delay |-> delay_given]
    /\ UNCHANGED <<written, chunks, events, stopCalled>>
    /\ UNCHANGED pvars

\* ---- _fd_watch_out: the main loop found the port writable ----
_fd_watch_out_again ==
    /\ phase = "live"
    /\ "IO_OUT" \in watches
    /\ Len(written) < MaxWrites
    /\ last' = "_fd_watch_out"
    /\ written' = Append(written, query)
    /\ UNCHANGED <<phase, raised, port, printer, query, _reply, _delay,
                   _timeout_id, timers, watches, chunks, events, args, stopCalled>>
    /\ UNCHANGED pvars

_fd_watch_out ==
    /\ phase = "live"
    /\ "IO_OUT" \in watches
    /\ Len(written) < MaxWrites
    /\ last' = "_fd_watch_out"
    /\ written' = Append(written, query)
    /\ watches' = watches \ {"IO_OUT"}
    /\ UNCHANGED <<phase, raised, port, printer, query, _reply, _delay,
                   _timeout_id, timers, chunks, events, args, stopCalled>>
    /\ UNCHANGED pvars

\* ---- _fd_watch_in: the main loop found the port readable; c = port.read() ----
_fd_watch_in_last_chunk(c) ==
    /\ phase = "live"
    /\ "IO_IN" \in watches
    /\ Len(chunks) < MaxReads
    /\ last' = "_fd_watch_in"
    /\ chunks' = Append(chunks, c)
    /\ _reply' = _reply \o c
    /\ IF status_reply_complete(printer, _reply')
       THEN /\ emit(ReplyEvent(c))
            /\ _remove_timeout
            /\ watches' = watches \ {"IO_IN"}
       ELSE UNCHANGED <<events, timers, _timeout_id, watches>>
    /\ UNCHANGED <<phase, raised, port, printer, query, _delay, written, args, stopCalled>>
    /\ UNCHANGED pvars

_fd_watch_in_overwrite(c) ==
    /\ phase = "live"
    /\ "IO_IN" \in watches
    /\ Len(chunks) < MaxReads
    /\ last' = "_fd_watch_in"
    /\ chunks' = Append(chunks, c)
    /\ _reply' = c
    /\ IF status_reply_complete(printer, _reply')
       THEN /\ emit(ReplyEvent(_reply'))
            /\ _remove_timeout
            /\ watches' = watches \ {"IO_IN"}
       ELSE UNCHANGED <<events, timers, _timeout_id, watches>>
    /\ UNCHANGED <<phase, raised, port, printer, query, _delay, written, args, stopCalled>>
    /\ UNCHANGED pvars

_fd_watch_in(c) ==
    /\ phase = "live"
    /\ "IO_IN" \in watches
    /\ Len(chunks) < MaxReads
    /\ last' = "_fd_watch_in"
    /\ chunks' = Append(chunks, c)
    /\ _reply' = _reply \o c
    /\ IF status_reply_complete(printer, _reply')
       THEN /\ emit(ReplyEvent(_reply'))
            /\ _remove_timeout
            /\ watches' = watches \ {"IO_IN"}
       ELSE UNCHANGED <<events, timers, _timeout_id, watches>>
    /\ UNCHANGED <<phase, raised, port, printer, query, _delay, written, args, stopCalled>>
    /\ UNCHANGED pvars

\* ---- _on_timeout: the main loop found the timer elapsed ----
_on_timeout ==
    /\ phase = "live"
    /\ \E t \in timers : t.id = TimerSourceId
    /\ last' = "_on_timeout"
    /\ _remove_timeout
    /\ emit(TimeoutEvent)
    /\ UNCHANGED <<phase, raised, port, printer, query, _reply, _delay,
                   watches, written, chunks, args, stopCalled>>
    /\ UNCHANGED pvars

\* ---- stop ----
stop ==
    /\ phase = "live"
    /\ last' = "stop"
    /\ _remove_timeout
    /\ stopCalled' = TRUE
    /\ UNCHANGED <<phase, raised, port, printer, query, _reply, _delay,
                   watches, written, chunks, events, args>>
    /\ UNCHANGED pvars

Next ==
    \/ \E has_class \in BOOLEAN, has_printer \in BOOLEAN, drv \in Drivers,
          q \in QueryValues, delay_given \in BOOLEAN, delay \in Delays :
          __init__(has_class, has_printer, drv, q, delay_given, delay)
    \/ _fd_watch_out
    \/ \E c \in ReadResults : _fd_watch_in(c)
    \/ _on_timeout
    \/ stop

Spec == Init /\ [][Next]_vars

TypeOK ==
    /\ phase \in {"none", "error", "live"}
    /\ _timeout_id \in {0, -1, TimerSourceId}
    /\ watches \subseteq {"IO_OUT", "IO_IN"}
    /\ Len(chunks) <= MaxReads
    /\ Len(written) <= MaxWrites

\* ---- vocabulary of the properties ----
Emitted(n) == {i \in 1..Len(events) : events[i].name = n}
HasReply == Emitted("reply") # {}
HasTimeout == Emitted("timeout") # {}
FirstIs(n) == events # <<>> /\ events[1].name = n
Received(k) == Flatten(SubSeq(chunks, 1, k))
CompleteAt(k) == status_reply_complete(printer, Received(k))

\* C1: under every interleaving of the callbacks at most one terminal event
\* ('reply' or 'timeout') is emitted by an exchange, so nothing is emitted
\* after a terminal event (no 'reply' after a 'timeout').
C1_OneTerminalEvent == Len(events) <= 1

\* C2: when the completion predicate becomes true on the received bytes before
\* the timer has fired, exactly one 'reply' has been emitted, its payload is
\* the concatenation of all chunks read up to and including the first read at
\* which the predicate held, and no 'timeout' is or can be emitted.
C2_ReplyBeforeTimeout ==
    (~FirstIs("timeout") /\ \E k \in 1..Len(chunks) : CompleteAt(k)) =>
        /\ events = <<ReplyEvent(Flatten(chunks))>>
        /\ \A k \in 1..(Len(chunks) - 1) : ~CompleteAt(k)
        /\ timers = {}
        /\ "IO_IN" \notin watches

C2_Witness ==
    /\ printer = "len3"
    /\ chunks = <<<<0>>, <<1>>, <<0>>>>
    /\ events = <<ReplyEvent(<<0, 1, 0>>)>>
    /\ last # "_fd_watch_in"

\* C3: when the timer fires before the completion predicate became true and
\* stop() is not called, the 'timeout' is the only event of the exchange:
\* no 'reply' before it and none after it, whatever is read later.
C3_TimeoutOnly ==
    (FirstIs("timeout") /\ ~stopCalled) => events = <<TimeoutEvent>>

\* C4: once stop() has been called before any terminal event, no step of the
\* exchange emits 'reply' or 'timeout'.
C4_StopSuppresses == [][(stopCalled /\ events = <<>>) => events' = <<>>]_vars

\* C5: __init__ called with neither printer_class nor printer raises TypeError
\* with no timer armed, no io watch registered, no port opened and nothing
\* of the exchange started.
C5_FailFast ==
    (phase # "none" /\ ~args.printer_class /\ ~args.printer) =>
        /\ phase = "error"
        /\ raised = "TypeError"
        /\ timers = {}
        /\ watches = {}
        /\ port = "none"
        /\ _timeout_id = 0
        /\ written = <<>> /\ chunks = <<>> /\ events = <<>>

C5_Witness == phase = "error" /\ raised = "TypeError" /\ last = "__init__"

\* C6: the status query is written at most once: until the write watch has
\* fired nothing is written, and from then on the port has received exactly
\* the bytes of query_status() once and the write watch is gone.
C6_OneQuery ==
    phase = "live" =>
        IF "IO_OUT" \in watches THEN written = <<>> ELSE written = <<query>>

C6_Witness ==
    /\ written = <<query>>
    /\ HasReply /\ HasTimeout
    /\ stopCalled
    /\ last # "_fd_watch_out"

\* C7: right after a successful __init__ there are exactly three pending
\* registrations, the write watch, the read watch and one timer of
\* delay * 1000 ms (5000 ms when delay was not passed), the buffer is empty
\* and nothing has been emitted; the timer fires at most once.
C7_AfterConstruction ==
    /\ (phase = "live" /\ last = "__init__") =>
          /\ watches = {"IO_OUT", "IO_IN"}
          /\ timers = {[id |-> _timeout_id, interval |-> _delay * 1000]}
          /\ (~args.delay => timers = {[id |-> _timeout_id, interval |-> 5000]})
          /\ _reply = <<>>
          /\ events = <<>>
    /\ Cardinality(Emitted("timeout")) <= 1

C7_Witness ==
    /\ phase = "live" /\ last = "__init__"
    /\ ~args.delay
    /\ Cardinality(timers) + Cardinality(watches) = 3

\* C8: after a terminal event (reply or timeout) the timer and both io
\* watches are deregistered, so no callback of the exchange can run again.
C8_AllDeregistered ==
    events # <<>> => (timers = {} /\ watches = {} /\ _timeout_id = -1)

\* C9: a read-readiness callback appends what it read to the end of the
\* buffer, no step ever changes or drops bytes already in the buffer, and a
\* read that leaves the completion predicate false emits nothing and keeps
\* the read watch registered.
C9_Accumulate ==
    [][/\ IsPrefix(_reply, _reply')
       /\ (last' = "_fd_watch_in") =>
             /\ Len(chunks') = Len(chunks) + 1
             /\ _reply' = _reply \o chunks'[Len(chunks')]
             /\ ~status_reply_complete(printer, _reply') =>
                   (events' = events /\ "IO_IN" \in watches')]_vars

C9_Witness ==
    /\ last = "_fd_watch_in"
    /\ Len(chunks) = 2 /\ Len(_reply) = 2
    /\ ~status_reply_complete(printer, _reply)
    /\ events = <<>>
    /\ "IO_IN" \in watches

\* C10: a read-readiness callback that finds the reply complete emits 'reply'
\* with the buffer, leaves the timeout id at -1 with no timer pending and the
\* read watch removed; after a reply the timer callback never runs and the
\* buffer is never extended.
C10_ReplyCleanup ==
    /\ [](HasReply => (_timeout_id = -1 /\ timers = {} /\ "IO_IN" \notin watches))
    /\ [][(last' = "_fd_watch_in" /\ status_reply_complete(printer, _reply'))
             => events' = Append(events, ReplyEvent(_reply'))]_vars
    /\ [][HasReply => (_reply' = _reply /\ events' = events
                        /\ last' \notin {"_on_timeout", "_fd_watch_in"})]_vars

C10_Witness ==
    /\ events = <<ReplyEvent(_reply)>>
    /\ Len(chunks) >= 2
    /\ _timeout_id = -1
    /\ last = "_fd_watch_out"

\* C11: when the timer fires before the reply is complete the partial buffer
\* is discarded: from the 'timeout' on the buffer holds none of the bytes
\* received before it, so no later event can deliver them.
C11_TimeoutDiscardsBuffer ==
    [][(last' = "_on_timeout") => (_reply' = <<>> /\ _timeout_id' = -1
                                     /\ events' = Append(events, TimeoutEvent))]_vars

(***************************************************************************)
(* stoqlib/gui/slaves/paymentslave.py                                       *)
(* Money amounts are whole currency units.  A payment is a row of the       *)
(* group: [id, method, value, is_none, base_value, status, iface]; is_none  *)
(* says that its value is None (an emptied value field).                    *)
(***************************************************************************)

\* ---- bounds of the payment model ----
MaxValue == 1          \* largest amount entered or owed
MaxInstallments == 2   \* largest max_installments of a payment method
MaxIds == 3            \* payments created in one run

Amounts == 0..MaxValue
Orders == {"Sale", "PurchaseOrder", "PaymentRenegotiation"}

Payment(id, method, value, iface) ==
    [id |-> id, method |-> method, value |-> value, is_none |-> FALSE,
     base_value |-> value, status |-> "preview", iface |-> iface]

RECURSIVE SumValues(_)
SumValues(ps) == IF ps = <<>> THEN 0
                 ELSE (IF Head(ps).is_none THEN 0 ELSE Head(ps).value) + SumValues(Tail(ps))

ById(ps, id) == ps[CHOOSE i \in 1..Len(ps) : ps[i].id = id]
Without(ps, id) == LET Keep(q) == q.id # id IN SelectSeq(ps, Keep)

\* _get_payment_method_iface: the adapter of the payments of an order
_get_payment_method_iface(ord) == IF ord = "PurchaseOrder" THEN "IOutPayment" ELSE "IInPayment"

\* ---- PaymentListSlave.get_total_difference ----
\* values of the slaves whose value is not None, summed; minus the interest.
RECURSIVE SumOfSlaves(_, _)
SumOfSlaves(ps, ws) ==
    IF ws = {} THEN 0
    ELSE LET w == CHOOSE x \in ws : TRUE
             q == ById(ps, w)
         IN (IF q.is_none THEN 0 ELSE q.value) + SumOfSlaves(ps, ws \ {w})

total_difference_interest_added(ps, ws, amount, interest) ==
    LET total == SumOfSlaves(ps, ws)
        slaves_total == total + interest
    IN IF slaves_total = amount THEN 0 ELSE amount - slaves_total

total_difference(ps, ws, amount, interest) ==
    LET total == SumOfSlaves(ps, ws)
        slaves_total == total - interest
    IN IF slaves_total = amount THEN 0 ELSE amount - slaves_total

get_total_difference == total_difference(payments, payment_slaves, total_amount, interest_total)

\* ---- PaymentListSlave.update_view / update_total_label, on the new state ----
update_total_label ==
    LET difference == get_total_difference'
    IN /\ status_label' = IF difference = 0 THEN ""
                          ELSE IF difference < 0 THEN "Overpaid:" ELSE "Outstanding:"
       /\ total_label' = IF difference = 0 THEN <<>>
                         ELSE IF difference < 0 THEN <<-difference>> ELSE <<difference>>

PaymentListSlave_update_view ==
    /\ ls_remove_button' = (Len(list_vbox') > 1)
    /\ ls_add_button' = (Len(list_vbox') < max_installments')
    /\ update_total_label

\* ---- the list as a value: L = [pays, vbox, slaves, nid] ----
ListNow == [pays |-> payments, vbox |-> list_vbox, slaves |-> payment_slaves, nid |-> nextId]

SetList(L) ==
    /\ payments' = L.pays
    /\ list_vbox' = L.vbox
    /\ payment_slaves' = L.slaves
    /\ nextId' = L.nid

\* add_slave(slave) with a slave whose payment w exists already
add_existing_slave(L, mx, w) ==
    IF Len(L.vbox) > mx THEN L
    ELSE [L EXCEPT !.vbox = Append(L.vbox, w), !.slaves = L.slaves \cup {w}]

\* add_slave(): the slave comes from parent.get_payment_slave(), which creates
\* a payment of value v
add_new_slave(L, mx, method, v, iface) ==
    IF Len(L.vbox) > mx THEN L
    ELSE [pays |-> Append(L.pays, Payment(L.nid, method, v, iface)),
          vbox |-> Append(L.vbox, L.nid),
          slaves |-> L.slaves \cup {L.nid},
          nid |-> L.nid + 1]

\* BasePaymentMethodSlave.get_payment_slave: the first slave carries the whole
\* total, the others start at zero
first_or_zero(L, total) == IF Len(L.vbox) = 0 THEN total ELSE 0

\* _remove_last_payment_slave; delete: the parent's remove-item handler
\* deletes the payment (_on_payment_list__remove_item)
_remove_last_payment_slave(L, delete) ==
    IF L.vbox = <<>> THEN L
    ELSE LET w == L.vbox[Len(L.vbox)]
         IN [L EXCEPT !.vbox = SubSeq(L.vbox, 1, Len(L.vbox) - 1),
                      !.slaves = L.slaves \ {w},
                      !.pays = IF delete THEN Without(L.pays, w) ELSE L.pays]

RECURSIVE add_slaves(_, _, _, _, _, _)
add_slaves(L, n, mx, method, total, iface) ==
    IF n = 0 THEN L
    ELSE add_slaves(add_new_slave(L, mx, method, first_or_zero(L, total), iface),
                    n - 1, mx, method, total, iface)

RECURSIVE remove_slaves(_, _, _)
remove_slaves(L, n, delete) ==
    IF n = 0 THEN L ELSE remove_slaves(_remove_last_payment_slave(L, delete), n - 1, delete)

\* PaymentListSlave.update_payment_list, max_installments registered
update_payment_list(L, inst, mx, method, total, iface, delete) ==
    LET difference == inst - Len(L.vbox)
    IN IF difference = 0 THEN L
       ELSE IF difference > 0 THEN add_slaves(L, difference, mx, method, total, iface)
       ELSE remove_slaves(L, -difference, delete)

\* k preview payments of one unit each, made with `method` before the slave
\* was built (the wizard was left and entered again)
RECURSIVE CreatedBefore(_, _, _)
CreatedBefore(k, method, iface) ==
    IF k = 0 THEN <<>>
    ELSE Append(CreatedBefore(k - 1, method, iface), Payment(k, method, 1, iface))

RECURSIVE fill_slave_list(_, _, _)
fill_slave_list(L, ws, mx) ==
    IF ws = <<>> THEN L
    ELSE fill_slave_list(add_existing_slave(L, mx, Head(ws)), Tail(ws), mx)

\* ---- BasePaymentMethodSlave._refresh_next (due dates stay at today: valid) ----
_refresh_next(validation_ok) ==
    next_enabled' = (validation_ok /\ get_total_difference' = 0)

\* ---- PaymentListSlave.__init__, with any parent ----
PaymentListSlave__init__(total, interest) ==
    /\ ls_phase = "none" /\ mm_phase = "none"
    /\ ls_phase' = "list"
    /\ total_amount' = total
    /\ interest_total' = interest
    /\ max_installments' = 0 /\ max_registered' = FALSE
    /\ payment_slaves' = {} /\ list_vbox' = <<>>
    /\ PaymentListSlave_update_view
    /\ p_last' = "PaymentListSlave.__init__"
    /\ UNCHANGED <<payments, nextId, savepoint, installments_number, inst_invalid,
                   inner_override, slave_method, mmvars, method_max, spin_range_max, next_enabled, p_raised>>
    /\ UNCHANGED vars

\* ---- PaymentListSlave.register_max_installments ----
register_max_installments(inst_number) ==
    /\ ls_phase = "list"
    /\ max_installments' = inst_number
    /\ max_registered' = TRUE
    /\ p_last' = "register_max_installments"
    /\ p_raised' = None
    /\ UNCHANGED <<dbvars, ls_phase, total_amount, payment_slaves, list_vbox,
                   interest_total, installments_number, inst_invalid, inner_override,
                   slave_method, ls_add_button, ls_remove_button, status_label,
                   total_label, mmvars, method_max, spin_range_max, next_enabled>>
    /\ UNCHANGED vars

\* ---- PaymentListSlave.add_slave(), the parent's new slave has value v ----
add_slave_unchecked(v) ==
    /\ ls_phase = "list"
    /\ UNCHANGED <<ls_phase, total_amount, max_installments, max_registered,
                   interest_total, installments_number, inst_invalid, inner_override,
                   slave_method, mmvars, method_max, spin_range_max, next_enabled>>
    /\ nextId <= MaxIds
    /\ p_last' = "add_slave"
    /\ p_raised' = None
    /\ SetList(add_new_slave(ListNow, max_installments, "bill", v, "IInPayment"))
    /\ UNCHANGED savepoint
    /\ IF list_vbox' # list_vbox
       THEN PaymentListSlave_update_view
       ELSE UNCHANGED <<ls_add_button, ls_remove_button, status_label, total_label>>
    /\ UNCHANGED vars

add_slave(v) ==
    /\ ls_phase = "list"
    /\ UNCHANGED <<ls_phase, total_amount, max_installments, max_registered,
                   interest_total, installments_number, inst_invalid, inner_override,
                   slave_method, mmvars, method_max, spin_range_max, next_enabled>>
    /\ nextId <= MaxIds
    /\ p_last' = "add_slave"
    /\ IF max_installments = 0
       THEN /\ p_raised' = "ValueError"
            /\ UNCHANGED <<dbvars, payment_slaves, list_vbox, ls_add_button,
                           ls_remove_button, status_label, total_label>>
       ELSE /\ p_raised' = None
            /\ SetList(add_new_slave(ListNow, max_installments, "bill", v, "IInPayment"))
            /\ UNCHANGED savepoint
            /\ IF list_vbox' # list_vbox
               THEN PaymentListSlave_update_view
               ELSE UNCHANGED <<ls_add_button, ls_remove_button, status_label, total_label>>
    /\ UNCHANGED vars

\* ---- BasePaymentMethodSlave.update_installments_number ----
\* (in a method slave the proxy then writes the spin button, whose changed
\* callback finds nothing to add or remove and calls _refresh_next(False))
update_installments_number ==
    IF ls_phase = "slave"
    THEN /\ installments_number' = Len(list_vbox')
         /\ next_enabled' = IF installments_number' # installments_number
                            THEN FALSE ELSE next_enabled
    ELSE UNCHANGED <<installments_number, next_enabled>>

\* ---- PaymentListSlave.on_add_button__clicked ----
PaymentListSlave_on_add_button__clicked(v) ==
    /\ ls_phase # "none"
    /\ UNCHANGED <<ls_phase, total_amount, max_installments, max_registered,
                   interest_total, inst_invalid, inner_override,
                   slave_method, mmvars, method_max, spin_range_max>>
    /\ ls_add_button
    /\ nextId <= MaxIds
    /\ ls_phase = "slave" => v = first_or_zero(ListNow, total_amount)
    /\ p_last' = "PaymentListSlave.on_add_button__clicked"
    /\ IF max_installments = 0
       THEN /\ p_raised' = "ValueError"
            /\ UNCHANGED <<dbvars, payment_slaves, list_vbox, ls_add_button,
                           ls_remove_button, status_label, total_label,
                           installments_number, next_enabled>>
       ELSE /\ p_raised' = None
            /\ SetList(add_new_slave(ListNow, max_installments,
                                     IF ls_phase = "slave" THEN slave_method ELSE "bill", v,
                                     IF ls_phase = "slave" THEN _get_payment_method_iface(order)
                                     ELSE "IInPayment"))
            /\ UNCHANGED savepoint
            /\ IF list_vbox' # list_vbox
               THEN PaymentListSlave_update_view
               ELSE UNCHANGED <<ls_add_button, ls_remove_button, status_label, total_label>>
            /\ update_installments_number
    /\ UNCHANGED vars

\* ---- PaymentListSlave.on_remove_button__clicked ----
PaymentListSlave_on_remove_button__clicked ==
    /\ ls_phase # "none"
    /\ UNCHANGED <<ls_phase, total_amount, max_installments, max_registered,
                   interest_total, inst_invalid, inner_override,
                   slave_method, mmvars, method_max, spin_range_max>>
    /\ ls_remove_button
    /\ p_last' = "PaymentListSlave.on_remove_button__clicked"
    /\ p_raised' = None
    /\ SetList(_remove_last_payment_slave(ListNow, ls_phase = "slave"))
    /\ UNCHANGED savepoint
    /\ IF list_vbox' # list_vbox
       THEN PaymentListSlave_update_view
       ELSE UNCHANGED <<ls_add_button, ls_remove_button, status_label, total_label>>
    /\ update_installments_number
    /\ UNCHANGED vars

\* ---- BasePaymentMethodSlave._setup_widgets: what the payment list holds ----
\* get_created_adapted_payments is a generator, so `if created_adapted_payments`
\* is true whatever it yields; only the override of _MultipleMethodEditor,
\* which returns [], reaches the branch that adds a first slave.
PreviewOf(ps, method) ==
    LET Keep(q) == q.method = method /\ q.status = "preview"
        sel == SelectSeq(ps, Keep)
    IN [i \in 1..Len(sel) |-> sel[i].id]

_setup_widgets(L0, override, mx, method, total, iface) ==
    IF ~override
    THEN fill_slave_list(L0, PreviewOf(L0.pays, method), mx)
    ELSE add_existing_slave(
             [L0 EXCEPT !.pays = Append(L0.pays, Payment(L0.nid, method, total, iface)),
                        !.nid = L0.nid + 1], mx, L0.nid)

\* ---- BasePaymentMethodSlave.__init__ on the group L0.pays ----
BuildMethodSlave(L0, override, method, mx, total, iface) ==
    /\ ls_phase' = "slave"
    /\ slave_method' = method
    /\ inner_override' = override
    /\ total_amount' = total
    /\ interest_total' = 0
    /\ max_installments' = mx /\ max_registered' = TRUE
    /\ installments_number' = 1
    /\ inst_invalid' = FALSE
    /\ SetList(_setup_widgets(L0, override, mx, method, total, iface))
    /\ PaymentListSlave_update_view
    /\ _refresh_next(TRUE)

\* a method slave as a wizard step: order of class ord, k payments of the
\* method already in the group
BasePaymentMethodSlave__init__(ord, method, mx, k, total) ==
    /\ ls_phase = "none" /\ mm_phase = "none"
    /\ order' = ord
    /\ method_max' = mx
    /\ spin_range_max' = mx
    /\ BuildMethodSlave([pays |-> CreatedBefore(k, method, _get_payment_method_iface(ord)),
                         vbox |-> <<>>, slaves |-> {}, nid |-> k + 1],
                        FALSE, method, mx, total, _get_payment_method_iface(ord))
    /\ p_last' = "BasePaymentMethodSlave.__init__"
    /\ UNCHANGED <<savepoint, mm_phase, client, _method, _outstanding_value, total_value,
                   _holder, base_value, add_button, validation, emitted, event_retval,
                   dialogs, opened_on, p_raised>>
    /\ UNCHANGED vars

\* ---- BasePaymentMethodSlave.on_installments_number__changed ----
\* the proxy has stored the new number n in the model
on_installments_number__changed(n) ==
    /\ ls_phase = "slave"
    /\ n \in 1..spin_range_max
    /\ UNCHANGED <<savepoint, ls_phase, total_amount, max_installments, max_registered,
                   interest_total, inner_override, slave_method, mmvars, method_max, spin_range_max>>
    /\ n # installments_number
    /\ installments_number' = n
    /\ p_last' = "on_installments_number__changed"
    /\ p_raised' = None
    /\ IF n > method_max
       THEN /\ inst_invalid' = TRUE
            /\ UNCHANGED <<payments, nextId, payment_slaves, list_vbox, ls_add_button,
                           ls_remove_button, status_label, total_label>>
       ELSE /\ inst_invalid' = FALSE
            /\ SetList(update_payment_list(ListNow, n, max_installments, slave_method,
                                           total_amount, _get_payment_method_iface(order), TRUE))
            /\ nextId' <= MaxIds + 1
            /\ IF list_vbox' # list_vbox
               THEN PaymentListSlave_update_view
               ELSE UNCHANGED <<ls_add_button, ls_remove_button, status_label, total_label>>
    /\ next_enabled' = FALSE
    /\ UNCHANGED vars

\* ---- BillDataSlave.after_value__changed: the value field of slave w now
\* holds v, or nothing (none); the method slave refreshes next and the label ----
after_value__changed(w, v, none) ==
    /\ ls_phase = "slave"
    /\ UNCHANGED <<nextId, savepoint, ls_phase, total_amount, max_installments,
                   max_registered, payment_slaves, list_vbox, interest_total,
                   installments_number, inst_invalid, inner_override, slave_method,
                   ls_add_button, ls_remove_button, mmvars, method_max, spin_range_max>>
    /\ w \in payment_slaves
    /\ none => v = 0
    /\ LET i == CHOOSE j \in 1..Len(payments) : payments[j].id = w
       IN /\ (payments[i].value # v \/ payments[i].is_none # none)
          /\ payments' = [payments EXCEPT ![i].value = v, ![i].is_none = none]
    /\ update_total_label
    /\ _refresh_next(TRUE)
    /\ p_last' = "after_value__changed"
    /\ p_raised' = None
    /\ UNCHANGED vars

\* ---- the payment list and a method slave as a wizard step ----
SlaveMethods == {"bill", "check"}

NextSlave ==
    \/ \E total \in Amounts, interest \in 0..1 : PaymentListSlave__init__(total, interest)
    \/ \E n \in 0..MaxInstallments : register_max_installments(n)
    \/ \E v \in Amounts : add_slave(v)
    \/ \E v \in Amounts : PaymentListSlave_on_add_button__clicked(v)
    \/ PaymentListSlave_on_remove_button__clicked
    \/ \E ord \in Orders, method \in SlaveMethods, mx \in 1..MaxInstallments,
          k \in 0..MaxInstallments, total \in Amounts :
          BasePaymentMethodSlave__init__(ord, method, mx, k, total)
    \/ \E n \in 1..MaxInstallments : on_installments_number__changed(n)
    \/ \E w \in 1..MaxIds, v \in Amounts, none \in BOOLEAN : after_value__changed(w, v, none)

SpecSlave == Init /\ [][NextSlave]_<<vars, pvars>>

\* ---- vocabulary of the payment properties ----
RECURSIVE InvoicedIn(_)
InvoicedIn(ws) ==
    IF ws = <<>> THEN 0
    ELSE LET q == ById(payments, Head(ws))
         IN (IF q.is_none THEN 0 ELSE q.value) + InvoicedIn(Tail(ws))

\* C14: get_total_difference is total_amount minus (the values of the slaves
\* that have one, minus the parent's interest total): 0 exactly when the whole
\* amount is invoiced, positive while an amount is outstanding, negative when
\* overpaid, and the labels of the list say so.
C14_TotalDifference ==
    ls_phase # "none" =>
        LET invoiced == InvoicedIn(list_vbox) - interest_total
            d == get_total_difference
        IN /\ d = total_amount - invoiced
           /\ (d = 0) = (invoiced = total_amount)
           /\ (d > 0) = (invoiced < total_amount)
           /\ (d < 0) = (invoiced > total_amount)
           /\ (status_label = "Outstanding:") = (d > 0)
           /\ (status_label = "Overpaid:") = (d < 0)
           /\ total_label = (IF d = 0 THEN <<>> ELSE IF d < 0 THEN <<-d>> ELSE <<d>>)

C14_Witness ==
    /\ ls_phase = "slave"
    /\ Len(list_vbox) = 2
    /\ \E w \in payment_slaves : ById(payments, w).is_none
    /\ get_total_difference < 0
    /\ status_label = "Overpaid:"

\* C15: in a method slave whose installments number is within
\* 1..max_installments, the model's installments_number is the number of
\* payment slaves in the list.
C15_InstallmentsMatchList ==
    (ls_phase = "slave" /\ installments_number \in 1..method_max) =>
        installments_number = Len(list_vbox)

\* C19: add_slave called while max_installments is None or 0 raises
\* ValueError and leaves the slave dictionary, the widget list and the
\* payments as they were.
C19_AddSlaveUnregistered ==
    [][(p_last' \in {"add_slave", "PaymentListSlave.on_add_button__clicked"}
        /\ (~max_registered \/ max_installments = 0))
          => (/\ p_raised' = "ValueError"
              /\ payment_slaves' = payment_slaves
              /\ list_vbox' = list_vbox
              /\ payments' = payments)]_<<vars, pvars>>

C19_Witness ==
    /\ p_last = "add_slave"
    /\ p_raised = "ValueError"
    /\ max_registered /\ max_installments = 0
    /\ Len(list_vbox) >= 1

(***************************************************************************)
(* MultipleMethodSlave and _MultipleMethodEditor.  The card method, whose    *)
(* slave creates its payments in finish(), is left out; every method has    *)
(* the same max_installments (method_max).  base_value.update() validates   *)
(* the value it shows, as an edit by the user does.  In the editor the      *)
(* values of the installments stay as the slave sets them.                  *)
(***************************************************************************)
MaxPayments == 2       \* payments that the add button of one MultipleMethodSlave starts
MaxTotal == 2          \* largest total of an order, largest value entered

Methods == {"money", "bill", "store_credit"}
NoCalls == <<>>
EventResults == {None, "UNHANDLED", "SUCCESS", "FAIL"}
Clients == {<<>>, <<1>>}

\* _add_method: the radio buttons the slave shows
AvailableMethods(ord, cl) ==
    {m \in Methods :
        IF m \in {"bill", "store_credit"}
        THEN IF ord # "PurchaseOrder" THEN cl # <<>> ELSE m # "store_credit"
        ELSE TRUE}

\* PaymentGroup.get_valid_payments: the payments that are not cancelled
get_valid_payments(ps) == LET Valid(q) == q.status # "cancelled" IN SelectSeq(ps, Valid)

payment_count(ps, method) ==
    LET Same(q) == q.method = method IN Len(SelectSeq(get_valid_payments(ps), Same))

\* one payment of one unit that the group holds when the slave is built
ExistingGroups(iface) ==
    {<<>>, <<[Payment(1, "bill", 1, iface) EXCEPT !.status = "pending"]>>}

\* ---- MultipleMethodSlave.on_base_value__validate, as a function ----
base_value__validate_zero_allowed(value, out, method) ==
    LET out1 == IF out < 0 THEN 0 ELSE out
        r1 == IF value < 0 THEN "ValidationError" ELSE None
        r2 == IF out1 - value < 0 /\ method # "money" THEN "ValidationError" ELSE r1
    IN [retval |-> r2, outstanding |-> out1, holder |-> value,
        can_add |-> (r2 = None /\ out1 > 0)]

base_value__validate(value, out, method) ==
    LET out1 == IF out < 0 THEN 0 ELSE out
        r1 == IF value < 0 THEN "ValidationError" ELSE None
        r2 == IF out1 - value < 0 /\ method # "money" THEN "ValidationError" ELSE r1
        r3 == IF value = 0 /\ out1 > 0 THEN "ValidationError" ELSE r2
    IN [retval |-> r3, outstanding |-> out1, holder |-> value,
        can_add |-> (r3 = None /\ out1 > 0)]

SetValidated(V, shown) ==
    /\ validation' = V.retval
    /\ _holder' = V.holder
    /\ add_button' = V.can_add
    /\ base_value' = shown

\* ---- MultipleMethodSlave._update_values on the payments ps ----
_update_values(ps, out, method) ==
    LET total_payments == SumValues(get_valid_payments(ps))
        o1 == out - total_payments
        shown == IF o1 > 0 THEN o1 ELSE 0
        V == base_value__validate(shown, o1, method)
    IN /\ SetValidated(V, shown)
       /\ _outstanding_value' = IF o1 > 0 THEN V.outstanding ELSE 0

\* ---- MultipleMethodSlave.can_confirm / update_view, on the new state ----
can_confirm == _outstanding_value = 0

MultipleMethodSlave_update_view == next_enabled' = can_confirm'

\* ---- MultipleMethodSlave.__init__ ----
MultipleMethodSlave__init__(ord, cl, mx, total, existing) ==
    /\ mm_phase = "none" /\ ls_phase = "none"
    /\ ord = "PurchaseOrder" => cl = <<>>
    /\ mm_phase' = "ready"
    /\ order' = ord
    /\ client' = cl
    /\ _method' = "money"
    /\ method_max' = mx
    /\ payments' = existing
    /\ nextId' = Len(existing) + 1
    /\ total_value' = total
    /\ _update_values(existing, total, "money")
    /\ p_last' = "MultipleMethodSlave.__init__"
    /\ UNCHANGED <<savepoint, lsvars, spin_range_max, next_enabled, emitted, event_retval,
                   dialogs, opened_on, p_raised>>
    /\ UNCHANGED vars

\* ---- MultipleMethodSlave.on_base_value__validate: the user enters value ----
on_base_value__validate(value) ==
    /\ mm_phase = "ready"
    /\ value # base_value
    /\ LET V == base_value__validate(value, _outstanding_value, _method)
       IN /\ SetValidated(V, value)
          /\ _outstanding_value' = V.outstanding
    /\ p_last' = "on_base_value__validate"
    /\ emitted' = NoCalls /\ event_retval' = None /\ dialogs' = NoCalls
    /\ UNCHANGED <<dbvars, lsvars, mm_phase, order, client, _method, total_value,
                   opened_on, method_max, spin_range_max, next_enabled, p_raised>>
    /\ UNCHANGED vars

\* ---- MultipleMethodSlave._on_method__toggled ----
_on_method__toggled(m) ==
    /\ mm_phase = "ready"
    /\ m \in AvailableMethods(order, client)
    /\ m # _method
    /\ _method' = m
    /\ p_last' = "_on_method__toggled"
    /\ emitted' = NoCalls /\ event_retval' = None /\ dialogs' = NoCalls
    /\ UNCHANGED <<dbvars, lsvars, mm_phase, order, client, _outstanding_value, total_value,
                   _holder, base_value, add_button, validation, opened_on, method_max,
                   spin_range_max, next_enabled, p_raised>>
    /\ UNCHANGED vars

\* ---- MultipleMethodSlave._can_add_payment ----
_can_add_payment ==
    /\ payment_count(payments, _method) < method_max
    /\ (_method = "store_credit" => client[1] >= _holder)

\* ---- MultipleMethodSlave._setup_cash_payment: the payment it creates ----
_setup_cash_payment_entered_value(id, holder, out, ord) ==
    [Payment(id, "money", holder, _get_payment_method_iface(ord))
        EXCEPT !.base_value = holder]

_setup_cash_payment(id, holder, out, ord) ==
    LET has_change_value == holder - out > 0
        payment_value == IF has_change_value THEN out ELSE holder
    IN [Payment(id, "money", payment_value, _get_payment_method_iface(ord))
           EXCEPT !.base_value = holder]

\* ---- _MultipleMethodEditor.__init__ ----
\* the savepoint, then the inner slave, which ignores the payments created
\* before and so adds a first payment of the whole value; then the range of
\* the installments spin button.
_MultipleMethodEditor__init___late_savepoint(method, outstanding_value) ==
    /\ BuildMethodSlave([pays |-> payments, vbox |-> <<>>, slaves |-> {}, nid |-> nextId],
                        TRUE, method, method_max, outstanding_value,
                        _get_payment_method_iface(order))
    /\ savepoint' = payments'
    /\ spin_range_max' = method_max - payment_count(payments', method)

_MultipleMethodEditor__init__(method, outstanding_value) ==
    /\ savepoint' = payments
    /\ BuildMethodSlave([pays |-> payments, vbox |-> <<>>, slaves |-> {}, nid |-> nextId],
                        TRUE, method, method_max, outstanding_value,
                        _get_payment_method_iface(order))
    /\ spin_range_max' = method_max - payment_count(payments', method)

\* ---- MultipleMethodSlave.on_add_button__clicked: _add_payment ----
\* r is what CreatePaymentEvent.emit returns (None when nothing handles it).
\* With the editor the handler goes on when the dialog is closed (on_confirm,
\* on_cancel below).
MultipleMethodSlave_on_add_button__clicked(r) ==
    /\ mm_phase = "ready"
    /\ add_button
    /\ nextId <= MaxPayments
    /\ UNCHANGED <<order, client, _method, total_value, method_max, p_raised>>
    /\ IF ~_can_add_payment
       THEN /\ r = None
            /\ dialogs' = <<"info">>
            /\ emitted' = <<>>
            /\ event_retval' = None
            /\ p_last' = "_add_payment"
            /\ UNCHANGED <<dbvars, lsvars, spin_range_max, mm_phase, _outstanding_value,
                           _holder, base_value, add_button, validation, opened_on,
                           next_enabled>>
       ELSE /\ (order = "PurchaseOrder" => r = None)
            /\ emitted' = IF order # "PurchaseOrder"
                          THEN <<[method |-> _method, model |-> order]>> ELSE <<>>
            /\ event_retval' = r
            /\ IF r \in {None, "UNHANDLED"} /\ _method # "money"
               THEN /\ dialogs' = <<"_MultipleMethodEditor">>
                    /\ opened_on' = payments
                    /\ _MultipleMethodEditor__init__(_method, _holder)
                    /\ mm_phase' = "editor"
                    /\ p_last' = "_run_payment_editor"
                    /\ UNCHANGED <<_outstanding_value, _holder, base_value, add_button,
                                   validation>>
               ELSE /\ dialogs' = <<>>
                    /\ payments' = IF _method = "money"
                                   THEN Append(payments,
                                               _setup_cash_payment(nextId, _holder,
                                                                   _outstanding_value, order))
                                   ELSE payments
                    /\ nextId' = IF _method = "money" THEN nextId + 1 ELSE nextId
                    /\ _update_values(payments', _outstanding_value, _method)
                    /\ MultipleMethodSlave_update_view
                    /\ p_last' = "_add_payment"
                    /\ UNCHANGED <<savepoint, lsvars, spin_range_max, mm_phase, opened_on>>
    /\ UNCHANGED vars

\* ---- the dialog is closed: the slave is gone, _add_payment goes on with
\* _update_payment_list and update_view ----
AfterEditor ==
    /\ mm_phase' = "ready"
    /\ ls_phase' = "none"
    /\ total_amount' = 0 /\ max_installments' = 0 /\ max_registered' = FALSE
    /\ payment_slaves' = {} /\ list_vbox' = <<>> /\ interest_total' = 0
    /\ installments_number' = 0 /\ inst_invalid' = FALSE /\ inner_override' = FALSE
    /\ slave_method' = None
    /\ ls_add_button' = FALSE /\ ls_remove_button' = FALSE
    /\ status_label' = "" /\ total_label' = <<>>
    /\ spin_range_max' = 0
    /\ _update_values(payments', _outstanding_value, _method)
    /\ MultipleMethodSlave_update_view
    /\ opened_on' = <<>>
    /\ UNCHANGED <<nextId, savepoint, order, client, _method, total_value, emitted,
                   event_retval, dialogs, method_max, p_raised>>
    /\ UNCHANGED vars

\* ---- _MultipleMethodEditor.on_confirm: slave.finish() creates nothing ----
on_confirm ==
    /\ mm_phase = "editor"
    /\ payments' = payments
    /\ p_last' = "on_confirm"
    /\ AfterEditor

\* ---- _MultipleMethodEditor.on_cancel: rollback_to_savepoint ----
on_cancel ==
    /\ mm_phase = "editor"
    /\ payments' = savepoint
    /\ p_last' = "on_cancel"
    /\ AfterEditor

\* ---- MultipleMethodSlave.on_remove_button__clicked: _remove_payment of the
\* selected row i ----
_remove_payment(ps, i) ==
    IF ps[i].status = "preview" THEN Without(ps, ps[i].id)
    ELSE [ps EXCEPT ![i].status = "cancelled"]

MultipleMethodSlave_on_remove_button__clicked(i) ==
    /\ mm_phase = "ready"
    /\ i \in 1..Len(payments)
    /\ payments[i].status # "cancelled"
    /\ payments' = _remove_payment(payments, i)
    /\ _update_values(payments', _outstanding_value, _method)
    /\ MultipleMethodSlave_update_view
    /\ p_last' = "_remove_payment"
    /\ emitted' = NoCalls /\ event_retval' = None /\ dialogs' = NoCalls
    /\ UNCHANGED <<nextId, savepoint, lsvars, spin_range_max, mm_phase, order, client,
                   _method, total_value, opened_on, method_max, p_raised>>
    /\ UNCHANGED vars

NextMulti ==
    \/ \E ord \in Orders, cl \in Clients, mx \in 1..MaxInstallments, total \in 0..MaxTotal :
          \E existing \in ExistingGroups(_get_payment_method_iface(ord)) :
              MultipleMethodSlave__init__(ord, cl, mx, total, existing)
    \/ \E value \in (-1)..MaxTotal : on_base_value__validate(value)
    \/ \E m \in Methods : _on_method__toggled(m)
    \/ \E r \in EventResults : MultipleMethodSlave_on_add_button__clicked(r)
    \/ on_confirm
    \/ on_cancel
    \/ \E i \in 1..MaxPayments : MultipleMethodSlave_on_remove_button__clicked(i)
    \/ \E v \in Amounts : PaymentListSlave_on_add_button__clicked(v)
    \/ PaymentListSlave_on_remove_button__clicked
    \/ \E n \in 1..MaxInstallments : on_installments_number__changed(n)

SpecMulti == Init /\ [][NextMulti]_<<vars, pvars>>

\* ---- vocabulary of the MultipleMethodSlave properties ----
Min(a, b) == IF a < b THEN a ELSE b

\* what is left to pay: the initial outstanding value minus the valid payments
LeftToPay ==
    LET owed == total_value - SumValues(get_valid_payments(payments))
    IN IF owed > 0 THEN owed ELSE 0

\* C12: between the handlers of MultipleMethodSlave the tracked outstanding
\* value is max(0, initial outstanding value - sum of the valid payments), and
\* can_confirm() is true exactly when nothing is left to pay.
C12_OutstandingTracked ==
    mm_phase = "ready" =>
        /\ _outstanding_value = LeftToPay
        /\ can_confirm = (LeftToPay = 0)

\* C13: the valid payments of the group that use one method are never more
\* than the method's max_installments, the payments made in the editor by the
\* installments number or the inner add button included.
C13_MaxInstallmentsRespected ==
    mm_phase # "none" =>
        \A m \in Methods : payment_count(payments, m) <= method_max

\* C16: while the editor is open the savepoint holds the payments that existed
\* when it was opened; closing it with cancel leaves exactly those payments,
\* closing it with confirm keeps the payments as the inner slave left them.
C16_CancelRollsBack ==
    /\ [](mm_phase = "editor" => savepoint = opened_on)
    /\ [][(mm_phase = "editor" /\ mm_phase' = "ready")
            => IF p_last' = "on_cancel" THEN payments' = opened_on
               ELSE p_last' = "on_confirm" /\ payments' = payments]_<<vars, pvars>>

C16_Witness ==
    /\ mm_phase = "ready"
    /\ p_last = "on_cancel"
    /\ payments = <<>>
    /\ nextId = 3

\* C17: the money payment that _add_payment creates has value
\* min(entered value, outstanding value), not more than the outstanding value;
\* its base_value is the entered value; it is an out-payment for a
\* PurchaseOrder and an in-payment otherwise.
C17_CashPayment ==
    [][(p_last' = "_add_payment" /\ _method = "money" /\ dialogs' = NoCalls)
         => /\ Len(payments') = Len(payments) + 1
            /\ LET q == payments'[Len(payments')]
               IN /\ q.method = "money"
                  /\ q.value = Min(_holder, _outstanding_value)
                  /\ q.value <= _outstanding_value
                  /\ q.base_value = _holder
                  /\ q.iface = IF order = "PurchaseOrder" THEN "IOutPayment"
                               ELSE "IInPayment"]_<<vars, pvars>>

C17_Witness ==
    /\ p_last = "_add_payment"
    /\ order = "PurchaseOrder"
    /\ \E i \in 1..Len(payments) :
          /\ payments[i].method = "money"
          /\ payments[i].base_value > payments[i].value
          /\ payments[i].iface = "IOutPayment"

\* C18: on_base_value__validate returns an error exactly when the value is
\* negative, or a method other than money gets more than the outstanding
\* value, or the value is zero while something is outstanding; the add button
\* is sensitive exactly when there is no error and something is outstanding;
\* the holder gets the entered value in every case.
C18_Validate ==
    [][(p_last' = "on_base_value__validate")
         => LET value == base_value'
                out == _outstanding_value
            IN /\ (validation' = "ValidationError")
                    = (\/ value < 0
                       \/ (_method # "money" /\ value > out)
                       \/ (value = 0 /\ out > 0))
               /\ validation' \in {None, "ValidationError"}
               /\ add_button' = (validation' = None /\ out > 0)
               /\ _holder' = value]_<<vars, pvars>>

C18_Witness ==
    /\ p_last = "on_base_value__validate"
    /\ validation = "ValidationError"
    /\ _holder = 0
    /\ _outstanding_value > 0
    /\ ~add_button

\* C20: _add_payment emits CreatePaymentEvent only when the order is a Sale,
\* never when _can_add_payment refused; it opens the editor only when the
\* event returned None or UNHANDLED and the method is not money.
C20_EventOnlyForSales ==
    /\ emitted # NoCalls => order = "Sale"
    /\ dialogs = <<"info">> => emitted = NoCalls
    /\ dialogs = <<"_MultipleMethodEditor">>
         => (event_retval \in {None, "UNHANDLED"} /\ _method # "money")
====
